---- MODULE Spec2Model ----
(***************************************************************************)
(* Model of dragon-fnd's layered configuration engine: the toml value      *)
(* tree, the deep merge of sources (config/source.rs, config/builder.rs,    *)
(* config/env.rs) and the fixed-point `${path}` reference resolver          *)
(* (config/resolve.rs).                                                     *)
(*                                                                         *)
(* Text is a sequence of one-character strings, so that the scanner of     *)
(* resolve_string works character by character as the code does.  A key    *)
(* of a table is such a text.  A value is a pair <<tag, payload>>, the tag  *)
(* naming the variant of toml::Value.                                      *)
(***************************************************************************)
EXTENDS Integers, Sequences, FiniteSets, TLC

VARIABLES
    table,      \* resolve_references: the tree being rewritten in place
    tree0,      \* the tree as it was when resolve_references was entered
    pc,         \* position of the caller
    iter,       \* passes completed by the running resolve_references call
    subs,       \* substitution count of every completed pass, in order
    result,     \* outcome of resolve_references, or Pending
    call,       \* 1 for the first call on the tree, 2 for a repeated call
    tree1,      \* the tree as the first call left it (EmptyTable before)
    sources,    \* Config::sources, in registration order
    idx,        \* build: index of the next source; merge engine: entries merged
    built,      \* outcome of Config::build, Pending while it runs
    prev,       \* merge engine: the tree before the last entry was merged
    op          \* merge engine: the last entry merged

vars == <<table, tree0, pc, iter, subs, result, call, tree1, sources, idx, built, prev, op>>

(***************************************************************************)
(* Value model                                                             *)
(***************************************************************************)
VStr(s) == <<"String", s>>

VInt(i) == <<"Integer", i>>

\* the decimal m / 10^sc, kept normalised (sc = 0, or m not a multiple of 10)
VFloat(m, sc) == <<"Float", <<m, sc>>>>

VBool(b) == <<"Boolean", b>>

VDate(y, m, d) == <<"Datetime", <<y, m, d>>>>

VTbl(f) == <<"Table", f>>

VArr(q) == <<"Array", q>>

EmptyTable == << >>

IsTable(val) == val[1] = "Table"

\* Table::insert(key, value)
Insert(tbl, key, val) ==
    [k \in (DOMAIN tbl) \cup {key} |-> IF k = key THEN val ELSE tbl[k]]

(***************************************************************************)
(* Canonical text of scalars (Display of i64, f64, bool, Datetime)         *)
(***************************************************************************)
Digit(d) == <<"0", "1", "2", "3", "4", "5", "6", "7", "8", "9">>[d + 1]

RECURSIVE NatToStr(_)
NatToStr(n) == IF n < 10 THEN <<Digit(n)>>
               ELSE NatToStr(n \div 10) \o <<Digit(n % 10)>>

IntToStr(i) == IF i < 0 THEN <<"-">> \o NatToStr(0 - i) ELSE NatToStr(i)

RECURSIVE Pow10(_)
Pow10(n) == IF n = 0 THEN 1 ELSE 10 * Pow10(n - 1)

\* the n low decimal digits of a, zero padded
RECURSIVE FracDigits(_, _)
FracDigits(a, n) ==
    IF n = 0 THEN << >> ELSE FracDigits(a \div 10, n - 1) \o <<Digit(a % 10)>>

\* Display of f64 for a short decimal: no exponent, no trailing zeros
FloatToStr(f) ==
    LET a    == IF f[1] < 0 THEN 0 - f[1] ELSE f[1]
        sign == IF f[1] < 0 THEN <<"-">> ELSE << >>
    IN  sign \o NatToStr(a \div Pow10(f[2])) \o
        (IF f[2] = 0 THEN << >>
         ELSE <<".">> \o FracDigits(a % Pow10(f[2]), f[2]))

Pad2(n) == <<Digit(n \div 10), Digit(n % 10)>>

DateToStr(d) ==
    <<Digit(d[1] \div 1000), Digit((d[1] \div 100) % 10),
      Digit((d[1] \div 10) % 10), Digit(d[1] % 10)>>
    \o <<"-">> \o Pad2(d[2]) \o <<"-">> \o Pad2(d[3])

BoolToStr(b) == IF b THEN <<"t", "r", "u", "e">> ELSE <<"f", "a", "l", "s", "e">>

\* index of the first c in s at or after i, 0 when there is none
RECURSIVE IndexFrom(_, _, _)
IndexFrom(s, i, c) ==
    IF i > Len(s) THEN 0 ELSE IF s[i] = c THEN i ELSE IndexFrom(s, i + 1, c)

(***************************************************************************)
(* Errors and results                                                      *)
(***************************************************************************)
NoErr == [kind |-> "None", path |-> << >>]

Err(kind, p) == [kind |-> kind, path |-> p]

Pending == [kind |-> "Pending", path |-> << >>]

\* no build is running (resolve_references or the merge engine called directly)
NoBuild == [kind |-> "NoBuild", path |-> << >>]

OkResult == [kind |-> "Ok", path |-> << >>]

\* value_to_string
value_to_string(val, path) ==
    CASE val[1] = "String"   -> [err |-> NoErr, s |-> val[2]]
      [] val[1] = "Integer"  -> [err |-> NoErr, s |-> IntToStr(val[2])]
      [] val[1] = "Float"    -> [err |-> NoErr, s |-> FloatToStr(val[2])]
      [] val[1] = "Boolean"  -> [err |-> NoErr, s |-> BoolToStr(val[2])]
      [] val[1] = "Datetime" -> [err |-> NoErr, s |-> DateToStr(val[2])]
      [] OTHER              -> [err |-> Err("NonScalarReference", path), s |-> << >>]

\* str::split('.'): always at least one part, empty parts kept
RECURSIVE SplitFrom(_, _, _, _)
SplitFrom(s, i, sep, cur) ==
    IF i > Len(s) THEN <<cur>>
    ELSE IF s[i] = sep THEN <<cur>> \o SplitFrom(s, i + 1, sep, << >>)
    ELSE SplitFrom(s, i + 1, sep, Append(cur, s[i]))

Split(s, sep) == SplitFrom(s, 1, sep, << >>)

\* the loop of lookup_path over parts[1..]: current is a value
RECURSIVE Traverse(_, _, _)
Traverse(current, parts, path) ==
    IF parts = << >> THEN value_to_string(current, path)
    ELSE IF IsTable(current) /\ Head(parts) \in DOMAIN current[2]
         THEN Traverse(current[2][Head(parts)], Tail(parts), path)
         ELSE [err |-> Err("ReferenceNotFound", path), s |-> << >>]

\* a lookup that does not reject empty segments before it looks anything up
lookup_path_lax(root, path) ==
    LET parts == Split(path, ".")
    IN  IF Head(parts) \notin DOMAIN root
        THEN [err |-> Err("ReferenceNotFound", path), s |-> << >>]
        ELSE Traverse(root[Head(parts)], Tail(parts), path)

\* lookup_path
lookup_path(root, path) ==
    LET parts == Split(path, ".")
    IN  IF parts = << >> \/ \E i \in 1..Len(parts) : parts[i] = << >>
        THEN [err |-> Err("InvalidReferencePath", path), s |-> << >>]
        ELSE IF Head(parts) \notin DOMAIN root
        THEN [err |-> Err("ReferenceNotFound", path), s |-> << >>]
        ELSE Traverse(root[Head(parts)], Tail(parts), path)

\* a consume_until that takes the end of the text for the delimiter
RECURSIVE consume_until_eos(_, _, _)
consume_until_eos(s, i, delim) ==
    IF i > Len(s) THEN i
    ELSE IF s[i] = delim THEN i
    ELSE consume_until_eos(s, i + 1, delim)

\* consume_until: index of the first delim at or after i, 0 when there is none
RECURSIVE consume_until(_, _, _)
consume_until(s, i, delim) ==
    IF i > Len(s) THEN 0
    ELSE IF s[i] = delim THEN i
    ELSE consume_until(s, i + 1, delim)

\* the while loop of resolve_string from position i, with the text emitted
\* so far and the substitutions counted so far
RECURSIVE ScanFrom(_, _, _, _, _)
ScanFrom(s, i, root, out, n) ==
    IF i > Len(s) THEN [err |-> NoErr, val |-> VStr(out), n |-> n]
    ELSE IF s[i] # "$" THEN ScanFrom(s, i + 1, root, Append(out, s[i]), n)
    ELSE IF i + 1 <= Len(s) /\ s[i + 1] = "$"
         THEN ScanFrom(s, i + 2, root, Append(out, "$"), n)
    ELSE IF i + 1 <= Len(s) /\ s[i + 1] = "{"
         THEN LET j == consume_until(s, i + 2, "}")
              IN  IF j = 0
                  THEN [err |-> Err("UnclosedReference", << >>), val |-> VStr(s), n |-> 0]
                  ELSE LET r == lookup_path(root, SubSeq(s, i + 2, j - 1))
                       IN  IF r.err # NoErr
                           THEN [err |-> r.err, val |-> VStr(s), n |-> 0]
                           ELSE ScanFrom(s, j + 1, root, out \o r.s, n + 1)
    ELSE ScanFrom(s, i + 1, root, Append(out, "$"), n)

\* resolve_string: on an error the string is left as it was
resolve_string(s, root) == ScanFrom(s, 1, root, << >>, 0)

RECURSIVE resolve_value(_, _, _)
RECURSIVE PassKeys(_, _, _, _, _)
RECURSIVE PassItems(_, _, _, _, _)

\* keys of tbl in the iteration order ord (a sequence listing every key)
KeysIn(tbl, ord) == SelectSeq(ord, LAMBDA k : k \in DOMAIN tbl)

\* a resolve_pass that looks references up in the table it is rewriting
RECURSIVE PassKeysLive(_, _, _, _)
PassKeysLive(tbl, keys, ord, n) ==
    IF keys = << >> THEN [err |-> NoErr, val |-> VTbl(tbl), n |-> n]
    ELSE LET k == Head(keys)
             r == resolve_value(tbl[k], tbl, ord)
             t2 == [tbl EXCEPT ![k] = r.val]
         IN  IF r.err # NoErr THEN [err |-> r.err, val |-> VTbl(t2), n |-> 0]
             ELSE PassKeysLive(t2, Tail(keys), ord, n + r.n)

resolve_pass_live(tbl, root, ord) == PassKeysLive(tbl, KeysIn(tbl, ord), ord, 0)

\* resolve_pass: one pass over the entries of tbl, looking references up in
\* root.  The `?` leaves the entries visited before an error rewritten.
resolve_pass(tbl, root, ord) == PassKeys(tbl, KeysIn(tbl, ord), root, ord, 0)

\* the for loop of resolve_pass over the remaining keys
PassKeys(tbl, keys, root, ord, n) ==
    IF keys = << >> THEN [err |-> NoErr, val |-> VTbl(tbl), n |-> n]
    ELSE LET k == Head(keys)
             r == resolve_value(tbl[k], root, ord)
             t2 == [tbl EXCEPT ![k] = r.val]
         IN  IF r.err # NoErr THEN [err |-> r.err, val |-> VTbl(t2), n |-> 0]
             ELSE PassKeys(t2, Tail(keys), root, ord, n + r.n)

\* the for loop of resolve_value over the items of an array, from index i
PassItems(arr, i, root, ord, n) ==
    IF i > Len(arr) THEN [err |-> NoErr, val |-> VArr(arr), n |-> n]
    ELSE LET r == resolve_value(arr[i], root, ord)
             a2 == [arr EXCEPT ![i] = r.val]
         IN  IF r.err # NoErr THEN [err |-> r.err, val |-> VArr(a2), n |-> 0]
             ELSE PassItems(a2, i + 1, root, ord, n + r.n)

\* the number a text of digits denotes
RECURSIVE ReparsedNat(_)
ReparsedNat(t) ==
    IF t = << >> THEN 0
    ELSE 10 * ReparsedNat(SubSeq(t, 1, Len(t) - 1))
         + (CHOOSE d \in 0..9 : Digit(d) = t[Len(t)])

\* a resolve_value that re-parses a substituted text and stores an Integer
\* where the text is all digits
resolve_value_retype(val, root, ord) ==
    CASE val[1] = "String" ->
           LET r == resolve_string(val[2], root)
               t == r.val[2]
           IN  IF /\ r.err = NoErr /\ r.n > 0 /\ t # << >>
                  /\ \A i \in DOMAIN t : \E d \in 0..9 : Digit(d) = t[i]
               THEN [r EXCEPT !.val = VInt(ReparsedNat(t))]
               ELSE r
      [] val[1] = "Table"  -> resolve_pass(val[2], root, ord)
      [] val[1] = "Array"  -> PassItems(val[2], 1, root, ord, 0)
      [] OTHER            -> [err |-> NoErr, val |-> val, n |-> 0]

\* resolve_value
resolve_value(val, root, ord) ==
    CASE val[1] = "String" -> resolve_string(val[2], root)
      [] val[1] = "Table"  -> resolve_pass(val[2], root, ord)
      [] val[1] = "Array"  -> PassItems(val[2], 1, root, ord, 0)
      [] OTHER            -> [err |-> NoErr, val |-> val, n |-> 0]

(***************************************************************************)
(* Merge engine (config/source.rs) and the builder's copy of deep_merge    *)
(***************************************************************************)
RECURSIVE deep_merge(_, _)
RECURSIVE MergeLoop(_, _, _)

\* source.rs deep_merge: the for loop over the entries of overlay
deep_merge(base, overlay) == MergeLoop(base, overlay, DOMAIN overlay)

\* a merge loop that replaces a table of the base instead of merging into it
RECURSIVE MergeLoop_shallow(_, _, _)
MergeLoop_shallow(base, overlay, rest) ==
    IF rest = {} THEN base
    ELSE LET key == CHOOSE k \in rest : TRUE
         IN  MergeLoop_shallow(Insert(base, key, overlay[key]), overlay, rest \ {key})

\* a merge loop that appends the overlay's array to the base's array
RECURSIVE MergeLoop_concat(_, _, _)
MergeLoop_concat(base, overlay, rest) ==
    IF rest = {} THEN base
    ELSE LET key == CHOOSE k \in rest : TRUE
             value == overlay[key]
         IN  MergeLoop_concat(
                 IF key \in DOMAIN base /\ IsTable(base[key]) /\ IsTable(value)
                 THEN [base EXCEPT ![key] = VTbl(deep_merge(base[key][2], value[2]))]
                 ELSE IF key \in DOMAIN base /\ base[key][1] = "Array" /\ value[1] = "Array"
                 THEN [base EXCEPT ![key] = VArr(base[key][2] \o value[2])]
                 ELSE Insert(base, key, value),
                 overlay, rest \ {key})

\* the loop with the keys of overlay still to visit
MergeLoop(base, overlay, rest) ==
    IF rest = {} THEN base
    ELSE LET key == CHOOSE k \in rest : TRUE
             value == overlay[key]
         IN  MergeLoop(IF key \in DOMAIN base /\ IsTable(base[key]) /\ IsTable(value)
                       THEN [base EXCEPT ![key] = VTbl(deep_merge(base[key][2], value[2]))]
                       ELSE Insert(base, key, value),
                       overlay, rest \ {key})

RECURSIVE builder_deep_merge(_, _)
RECURSIVE BuilderMergeLoop(_, _, _)

\* builder.rs deep_merge
builder_deep_merge(base, overlay) == BuilderMergeLoop(base, overlay, DOMAIN overlay)

\* the builder's merge loop replacing a table of the base instead of merging
RECURSIVE BuilderMergeLoop_shallow(_, _, _)
BuilderMergeLoop_shallow(base, overlay, rest) ==
    IF rest = {} THEN base
    ELSE LET key == CHOOSE k \in rest : TRUE
         IN  BuilderMergeLoop_shallow(Insert(base, key, overlay[key]), overlay, rest \ {key})

\* the for loop of the builder's deep_merge with the keys still to visit
BuilderMergeLoop(base, overlay, rest) ==
    IF rest = {} THEN base
    ELSE LET key == CHOOSE k \in rest : TRUE
             value == overlay[key]
         IN  BuilderMergeLoop(
                 IF key \in DOMAIN base /\ IsTable(base[key]) /\ IsTable(value)
                 THEN [base EXCEPT ![key] = VTbl(builder_deep_merge(base[key][2], value[2]))]
                 ELSE Insert(base, key, value),
                 overlay, rest \ {key})

\* a path merge that leaves a non-table value standing in the way of the path
RECURSIVE merge_at_path_keep(_, _, _)
merge_at_path_keep(tbl, path, value) ==
    IF path = << >>
    THEN (IF IsTable(value) THEN deep_merge(tbl, value[2]) ELSE tbl)
    ELSE LET first == Head(path)
             rest  == Tail(path)
         IN  IF rest = << >>
             THEN (IF first \in DOMAIN tbl /\ IsTable(tbl[first]) /\ IsTable(value)
                   THEN [tbl EXCEPT ![first] = VTbl(deep_merge(tbl[first][2], value[2]))]
                   ELSE Insert(tbl, first, value))
             ELSE IF first \in DOMAIN tbl /\ ~IsTable(tbl[first]) THEN tbl
             ELSE LET t2 == IF first \in DOMAIN tbl THEN tbl
                            ELSE Insert(tbl, first, VTbl(EmptyTable))
                  IN  [t2 EXCEPT ![first] = VTbl(merge_at_path_keep(t2[first][2], rest, value))]

\* a path merge that empties the tree when a non-table arrives at the root
RECURSIVE merge_at_path_rootset(_, _, _)
merge_at_path_rootset(tbl, path, value) ==
    IF path = << >>
    THEN (IF IsTable(value) THEN deep_merge(tbl, value[2]) ELSE EmptyTable)
    ELSE LET first == Head(path)
             rest  == Tail(path)
         IN  IF rest = << >>
             THEN (IF first \in DOMAIN tbl /\ IsTable(tbl[first]) /\ IsTable(value)
                   THEN [tbl EXCEPT ![first] = VTbl(deep_merge(tbl[first][2], value[2]))]
                   ELSE Insert(tbl, first, value))
             ELSE LET t2 == IF first \in DOMAIN tbl /\ IsTable(tbl[first]) THEN tbl
                            ELSE Insert(tbl, first, VTbl(EmptyTable))
                  IN  [t2 EXCEPT ![first] = VTbl(merge_at_path_rootset(t2[first][2], rest, value))]

\* a path merge whose last segment always replaces, table or not
RECURSIVE merge_at_path_replace(_, _, _)
merge_at_path_replace(tbl, path, value) ==
    IF path = << >>
    THEN (IF IsTable(value) THEN deep_merge(tbl, value[2]) ELSE tbl)
    ELSE LET first == Head(path)
             rest  == Tail(path)
         IN  IF rest = << >>
             THEN Insert(tbl, first, value)
             ELSE LET t2 == IF first \in DOMAIN tbl /\ IsTable(tbl[first]) THEN tbl
                            ELSE Insert(tbl, first, VTbl(EmptyTable))
                  IN  [t2 EXCEPT ![first] = VTbl(merge_at_path_replace(t2[first][2], rest, value))]

\* merge_at_path
RECURSIVE merge_at_path(_, _, _)
merge_at_path(tbl, path, value) ==
    IF path = << >>
    THEN (IF IsTable(value) THEN deep_merge(tbl, value[2]) ELSE tbl)
    ELSE LET first == Head(path)
             rest  == Tail(path)
         IN  IF rest = << >>
             THEN (IF first \in DOMAIN tbl /\ IsTable(tbl[first]) /\ IsTable(value)
                   THEN [tbl EXCEPT ![first] = VTbl(deep_merge(tbl[first][2], value[2]))]
                   ELSE Insert(tbl, first, value))
             ELSE LET t2 == IF first \in DOMAIN tbl /\ IsTable(tbl[first]) THEN tbl
                            ELSE Insert(tbl, first, VTbl(EmptyTable))
                  IN  [t2 EXCEPT ![first] = VTbl(merge_at_path(t2[first][2], rest, value))]

(***************************************************************************)
(* Environment source (config/env.rs)                                      *)
(***************************************************************************)
UpperCase == <<"A", "B", "C", "D", "E", "F", "G", "H", "I", "J", "K", "L", "M",
               "N", "O", "P", "Q", "R", "S", "T", "U", "V", "W", "X", "Y", "Z">>

LowerCase == <<"a", "b", "c", "d", "e", "f", "g", "h", "i", "j", "k", "l", "m",
               "n", "o", "p", "q", "r", "s", "t", "u", "v", "w", "x", "y", "z">>

LowerChar(c) ==
    IF \E i \in DOMAIN UpperCase : UpperCase[i] = c
    THEN LowerCase[CHOOSE i \in DOMAIN UpperCase : UpperCase[i] = c]
    ELSE c

\* str::to_lowercase, str::eq_ignore_ascii_case on the letters A-Z
to_lowercase(s) == [i \in DOMAIN s |-> LowerChar(s[i])]

eq_ignore_ascii_case(s, w) == to_lowercase(s) = to_lowercase(w)

IsDigit(c) == c \in {"0", "1", "2", "3", "4", "5", "6", "7", "8", "9"}

DigitVal(c) == CHOOSE d \in 0..9 : Digit(d) = c

AllDigits(s) == \A i \in DOMAIN s : IsDigit(s[i])

\* looks_like_integer
looks_like_integer(s) ==
    LET d == IF s # << >> /\ Head(s) = "-" THEN Tail(s) ELSE s
    IN  d # << >> /\ AllDigits(d)

RECURSIVE StripZeros(_)
StripZeros(d) == IF Len(d) > 1 /\ Head(d) = "0" THEN StripZeros(Tail(d)) ELSE d

RECURSIVE DigitsToNat(_)
DigitsToNat(d) ==
    IF d = << >> THEN 0 ELSE 10 * DigitsToNat(SubSeq(d, 1, Len(d) - 1)) + DigitVal(d[Len(d)])

\* d <= e for digit texts of one length
RECURSIVE DigitsLeq(_, _)
DigitsLeq(d, e) ==
    IF d = << >> THEN TRUE
    ELSE IF Head(d) # Head(e) THEN DigitVal(Head(d)) < DigitVal(Head(e))
    ELSE DigitsLeq(Tail(d), Tail(e))

I64MaxDigits == <<"9", "2", "2", "3", "3", "7", "2", "0", "3", "6", "8", "5", "4", "7",
                  "7", "5", "8", "0", "7">>

I64MinDigits == <<"9", "2", "2", "3", "3", "7", "2", "0", "3", "6", "8", "5", "4", "7",
                  "7", "5", "8", "0", "8">>

\* str::parse::<i64> of a text that looks like an integer: fails on overflow
parse_i64(s) ==
    LET neg == Head(s) = "-"
        d   == StripZeros(IF neg THEN Tail(s) ELSE s)
        lim == IF neg THEN I64MinDigits ELSE I64MaxDigits
        fit == Len(d) < Len(lim) \/ (Len(d) = Len(lim) /\ DigitsLeq(d, lim))
    IN  IF fit THEN [ok |-> TRUE, i |-> IF neg THEN 0 - DigitsToNat(d) ELSE DigitsToNat(d)]
        ELSE [ok |-> FALSE, i |-> 0]

\* m / 10^sc without trailing zeros in the fraction
RECURSIVE Normalise(_, _)
Normalise(m, sc) ==
    IF sc > 0 /\ m % 10 = 0 THEN Normalise(m \div 10, sc - 1) ELSE <<m, sc>>

\* str::parse::<f64> of a text that contains '.': sign, digits, '.', digits
\* with a digit on one side at least, then an optional exponent
parse_f64(s) ==
    LET signed == s # << >> /\ Head(s) \in {"+", "-"}
        neg    == s # << >> /\ Head(s) = "-"
        body   == IF signed THEN Tail(s) ELSE s
        ePos   == IF IndexFrom(body, 1, "e") # 0 THEN IndexFrom(body, 1, "e")
                  ELSE IndexFrom(body, 1, "E")
        mant   == IF ePos = 0 THEN body ELSE SubSeq(body, 1, ePos - 1)
        expo   == IF ePos = 0 THEN << >> ELSE SubSeq(body, ePos + 1, Len(body))
        eSign  == expo # << >> /\ Head(expo) \in {"+", "-"}
        eDig   == IF eSign THEN Tail(expo) ELSE expo
        dot    == IndexFrom(mant, 1, ".")
        whole  == IF dot = 0 THEN mant ELSE SubSeq(mant, 1, dot - 1)
        frac   == IF dot = 0 THEN << >> ELSE SubSeq(mant, dot + 1, Len(mant))
        ok     == /\ AllDigits(whole) /\ AllDigits(frac)
                  /\ whole \o frac # << >>
                  /\ ePos # 0 => (eDig # << >> /\ AllDigits(eDig))
        e      == IF ePos = 0 THEN 0
                  ELSE IF expo # << >> /\ Head(expo) = "-" THEN 0 - DigitsToNat(eDig)
                  ELSE DigitsToNat(eDig)
        m      == DigitsToNat(whole \o frac)
        sc     == Len(frac) - e
        nrm    == IF sc >= 0 THEN Normalise(m, sc) ELSE <<m * Pow10(0 - sc), 0>>
    IN  IF ok THEN [ok |-> TRUE, f |-> <<IF neg THEN 0 - nrm[1] ELSE nrm[1], nrm[2]>>]
        ELSE [ok |-> FALSE, f |-> <<0, 0>>]

\* a coerce_value that hands every text to the integer parser, which takes a
\* leading `+` as well
coerce_value_noguard(s) ==
    LET t == IF s # << >> /\ Head(s) = "+" THEN Tail(s) ELSE s
    IN  IF eq_ignore_ascii_case(s, <<"t", "r", "u", "e">>) THEN VBool(TRUE)
        ELSE IF eq_ignore_ascii_case(s, <<"f", "a", "l", "s", "e">>) THEN VBool(FALSE)
        ELSE IF looks_like_integer(t) /\ parse_i64(t).ok THEN VInt(parse_i64(t).i)
        ELSE IF IndexFrom(s, 1, ".") # 0 /\ parse_f64(s).ok
             THEN VFloat(parse_f64(s).f[1], parse_f64(s).f[2])
        ELSE VStr(s)

\* coerce_value
coerce_value(s) ==
    IF eq_ignore_ascii_case(s, <<"t", "r", "u", "e">>) THEN VBool(TRUE)
    ELSE IF eq_ignore_ascii_case(s, <<"f", "a", "l", "s", "e">>) THEN VBool(FALSE)
    ELSE IF looks_like_integer(s) /\ parse_i64(s).ok THEN VInt(parse_i64(s).i)
    ELSE IF IndexFrom(s, 1, ".") # 0 /\ parse_f64(s).ok THEN VFloat(parse_f64(s).f[1], parse_f64(s).f[2])
    ELSE VStr(s)

\* an inserter that puts a new table at every intermediate segment, whether
\* a table stands there or not
RECURSIVE insert_at_path_fresh(_, _, _)
insert_at_path_fresh(tbl, path, value) ==
    IF path = << >> THEN tbl
    ELSE LET key  == to_lowercase(Head(path))
             rest == Tail(path)
         IN  IF rest = << >> THEN Insert(tbl, key, value)
             ELSE Insert(tbl, key, VTbl(insert_at_path_fresh(EmptyTable, rest, value)))

\* insert_at_path
RECURSIVE insert_at_path(_, _, _)
insert_at_path(tbl, path, value) ==
    IF path = << >> THEN tbl
    ELSE LET key  == to_lowercase(Head(path))
             rest == Tail(path)
         IN  IF rest = << >> THEN Insert(tbl, key, value)
             ELSE LET t2 == IF key \in DOMAIN tbl /\ IsTable(tbl[key]) THEN tbl
                            ELSE Insert(tbl, key, VTbl(EmptyTable))
                  IN  [t2 EXCEPT ![key] = VTbl(insert_at_path(t2[key][2], rest, value))]

StartsWith(s, pre) == Len(pre) <= Len(s) /\ SubSeq(s, 1, Len(pre)) = pre

\* str::split(separator) for a non-empty separator text
RECURSIVE SplitStrFrom(_, _, _, _)
SplitStrFrom(s, i, sep, cur) ==
    IF i > Len(s) THEN <<cur>>
    ELSE IF i + Len(sep) - 1 <= Len(s) /\ SubSeq(s, i, i + Len(sep) - 1) = sep
         THEN <<cur>> \o SplitStrFrom(s, i + Len(sep), sep, << >>)
    ELSE SplitStrFrom(s, i + 1, sep, Append(cur, s[i]))

\* a loop body that does not skip the variable named exactly prefix+separator
load_env_var_noskip(tbl, prefix_with_sep, separator, key, value) ==
    IF ~StartsWith(key, prefix_with_sep) THEN tbl
    ELSE LET path_str == SubSeq(key, Len(prefix_with_sep) + 1, Len(key))
         IN  insert_at_path(tbl, SplitStrFrom(path_str, 1, separator, << >>),
                            coerce_value(value))

\* the body of the for loop of load_env_vars for one variable
load_env_var(tbl, prefix_with_sep, separator, key, value) ==
    IF ~StartsWith(key, prefix_with_sep) THEN tbl
    ELSE LET path_str == SubSeq(key, Len(prefix_with_sep) + 1, Len(key))
         IN  IF path_str = << >> THEN tbl
             ELSE insert_at_path(tbl, SplitStrFrom(path_str, 1, separator, << >>),
                                 coerce_value(value))

\* load_env_vars over the environment as std::env::vars() enumerates it:
\* environ is a sequence of <<key, value>>
RECURSIVE load_env_vars(_, _, _, _)
load_env_vars(tbl, prefix, separator, environ) ==
    IF environ = << >> THEN tbl
    ELSE load_env_vars(load_env_var(tbl, prefix \o separator, separator,
                                    Head(environ)[1], Head(environ)[2]),
                       prefix, separator, Tail(environ))

\* a load_config_file that skips an absent file whether required or not
load_config_file_lenient(file, required) ==
    CASE file.fs = "ok"         -> [err |-> NoErr, some |-> TRUE, tbl |-> file.content]
      [] file.fs = "malformed"  -> [err |-> Err("ParseError", file.path), some |-> FALSE, tbl |-> EmptyTable]
      [] file.fs = "absent"     -> [err |-> NoErr, some |-> FALSE, tbl |-> EmptyTable]
      [] OTHER                  -> [err |-> Err("ReadError", file.path), some |-> FALSE, tbl |-> EmptyTable]

\* load_config_file: file is [fs, content]; fs is what read_to_string and
\* toml::from_str meet: "ok", "absent", "unreadable" or "malformed"
load_config_file(file, required) ==
    CASE file.fs = "ok"         -> [err |-> NoErr, some |-> TRUE, tbl |-> file.content]
      [] file.fs = "malformed"  -> [err |-> Err("ParseError", file.path), some |-> FALSE, tbl |-> EmptyTable]
      [] file.fs = "absent"     ->
           IF required THEN [err |-> Err("FileNotFound", file.path), some |-> FALSE, tbl |-> EmptyTable]
           ELSE [err |-> NoErr, some |-> FALSE, tbl |-> EmptyTable]
      [] OTHER                  -> [err |-> Err("ReadError", file.path), some |-> FALSE, tbl |-> EmptyTable]

(***************************************************************************)
(* resolve_references as a loop of passes                                  *)
(***************************************************************************)
MAX_ITERATIONS == 100

\* longest text a pass may leave in the tree before the exploration stops
MaxStrLen == 20

ka == <<"a">>

kb == <<"b">>

kc == <<"c">>

Ref(p) == <<"$", "{">> \o p \o <<"}">>

Esc(p) == <<"$">> \o Ref(p)

KeyUniverse == {ka, kb, kc}

\* every key used at any depth of a value
RECURSIVE KeysOf(_)
KeysOf(val) ==
    CASE val[1] = "Table" -> (DOMAIN val[2]) \cup UNION {KeysOf(val[2][k]) : k \in DOMAIN val[2]}
      [] val[1] = "Array" -> UNION {KeysOf(val[2][i]) : i \in DOMAIN val[2]}
      [] OTHER -> {}

\* the iteration orders the maps of a tree can have (toml::map::Map is sorted
\* by key, or keeps insertion order): every ranking of the keys in use
Orders(tbl) ==
    LET K == KeysOf(VTbl(tbl))
    IN  {q \in [1..Cardinality(K) -> K] :
            \A i, j \in 1..Cardinality(K) : q[i] = q[j] => i = j}

RECURSIVE MaxLenIn(_)
MaxLenIn(val) ==
    CASE val[1] = "String" -> Len(val[2])
      [] val[1] = "Table"  ->
           IF DOMAIN val[2] = {} THEN 0
           ELSE LET k == CHOOSE k \in DOMAIN val[2] :
                           \A j \in DOMAIN val[2] : MaxLenIn(val[2][j]) <= MaxLenIn(val[2][k])
                IN  MaxLenIn(val[2][k])
      [] val[1] = "Array"  ->
           IF val[2] = << >> THEN 0
           ELSE LET k == CHOOSE k \in DOMAIN val[2] :
                           \A j \in DOMAIN val[2] : MaxLenIn(val[2][j]) <= MaxLenIn(val[2][k])
                IN  MaxLenIn(val[2][k])
      [] OTHER -> 0

Absent == <<"Absent", << >>>>

\* a ConfigEntry handed to the merge engine; NoOp before the first one
Entry(kind, path, value) == [kind |-> kind, path |-> path, value |-> value]

NoOp == Entry("none", << >>, Absent)

\* a root table of the three keys, a key left out where its value is Absent
Mk(va, vb, vc) ==
    LET f == (ka :> va) @@ (kb :> vb) @@ (kc :> vc)
    IN  [k \in {j \in KeyUniverse : f[j] # Absent} |-> f[k]]

StrPoolA ==
    { <<"x">>, Ref(ka), Ref(kb), Ref(kc), Esc(kb), Esc(kb) \o Ref(kb),
      <<"$", "$">>, <<"$">>, Ref(kb) \o <<"x">>, <<"$", "{">>, Ref(<< >>),
      Ref(<<"z", "z">>), Ref(<<"c", ".", "a">>), Ref(<<"a", ".">>),
      Ref(kb) \o <<"{", "b", "}">>, <<"a", "$", "b">>, Ref(kc) \o Ref(kb),
      Ref(kb) \o <<"$", "{">> }

StrPoolB ==
    { <<"x">>, <<"$">>, Ref(ka), Ref(kc), Esc(<<"z", "z">>),
      Ref(kc) \o Ref(ka), <<"$", "{">>, <<"x", "$", "$">> }

PoolA == {Absent} \cup {VStr(s) : s \in StrPoolA}
            \cup {VArr(<<VStr(Ref(kb)), VStr(<<"x">>)>>)}

PoolB == {Absent, VInt(42), VBool(TRUE)} \cup {VStr(s) : s \in StrPoolB}

PoolC ==
    { Absent, VStr(<<"x">>), VStr(<<"$">>), VStr(Ref(kb)), VInt(-7), VFloat(314, 2),
      VDate(2024, 1, 5),
      VTbl(ka :> VStr(Ref(kb))), VTbl(ka :> VStr(<<"x">>)),
      VArr(<<VStr(Ref(ka)), VInt(1)>>),
      VTbl(kb :> VArr(<<VStr(<<"$", "{", "x">>)>>)) }

InitResolve ==
    /\ table \in {Mk(va, vb, vc) : va \in PoolA, vb \in PoolB, vc \in PoolC}
    /\ tree0 = table
    /\ tree1 = EmptyTable
    /\ pc = "resolve"
    /\ iter = 0
    /\ subs = << >>
    /\ result = Pending
    /\ call = 1
    /\ sources = << >>
    /\ idx = 0
    /\ built = NoBuild
    /\ prev = EmptyTable
    /\ op = NoOp

\* resolve.rs line 17: the lookup root of a pass is a clone of the table
Snapshot(tbl) == tbl

\* a pass fails: `?` returns its error, the table stays partly rewritten
PassError ==
    /\ pc = "resolve"
    /\ iter < MAX_ITERATIONS
    /\ \E ord \in Orders(table) :
         LET r == resolve_pass(table, Snapshot(table), ord)
         IN  /\ r.err # NoErr
             /\ table' = r.val[2]
             /\ result' = r.err
    /\ pc' = "done"
    /\ UNCHANGED <<tree0, tree1, iter, subs, call, sources, idx, built, prev, op>>

\* a pass makes no substitution: return Ok(())
PassFixed ==
    /\ pc = "resolve"
    /\ iter < MAX_ITERATIONS
    /\ \E ord \in Orders(table) :
         LET r == resolve_pass(table, Snapshot(table), ord)
         IN  /\ r.err = NoErr
             /\ r.n = 0
             /\ table' = r.val[2]
             /\ subs' = Append(subs, 0)
    /\ iter' = iter + 1
    /\ result' = OkResult
    /\ pc' = "done"
    /\ UNCHANGED <<tree0, tree1, call, sources, idx, built, prev, op>>

\* a loop that returns Ok after its first substituting pass
PassAgain_once ==
    /\ pc = "resolve"
    /\ iter < MAX_ITERATIONS
    /\ \E ord \in Orders(table) :
         LET r == resolve_pass(table, Snapshot(table), ord)
         IN  /\ r.err = NoErr
             /\ r.n > 0
             /\ table' = r.val[2]
             /\ subs' = Append(subs, r.n)
    /\ iter' = iter + 1
    /\ result' = OkResult
    /\ pc' = "done"
    /\ UNCHANGED <<tree0, tree1, call, sources, idx, built, prev, op>>

\* a loop that runs one pass more than MAX_ITERATIONS
PassAgain_offbyone ==
    /\ pc = "resolve"
    /\ iter <= MAX_ITERATIONS
    /\ \E ord \in Orders(table) :
         LET r == resolve_pass(table, Snapshot(table), ord)
         IN  /\ r.err = NoErr
             /\ r.n > 0
             /\ MaxLenIn(r.val) <= MaxStrLen
             /\ table' = r.val[2]
             /\ subs' = Append(subs, r.n)
    /\ iter' = iter + 1
    /\ IF iter + 1 = MAX_ITERATIONS + 1
       THEN result' = Err("CircularReference", << >>) /\ pc' = "done"
       ELSE UNCHANGED <<result, pc>>
    /\ UNCHANGED <<tree0, tree1, call, sources, idx, built, prev, op>>

\* a pass substitutes: loop again, or leave the loop after MAX_ITERATIONS
PassAgain ==
    /\ pc = "resolve"
    /\ iter < MAX_ITERATIONS
    /\ \E ord \in Orders(table) :
         LET r == resolve_pass(table, Snapshot(table), ord)
         IN  /\ r.err = NoErr
             /\ r.n > 0
             /\ MaxLenIn(r.val) <= MaxStrLen
             /\ table' = r.val[2]
             /\ subs' = Append(subs, r.n)
    /\ iter' = iter + 1
    /\ IF iter + 1 = MAX_ITERATIONS
       THEN result' = Err("CircularReference", << >>) /\ pc' = "done"
       ELSE UNCHANGED <<result, pc>>
    /\ UNCHANGED <<tree0, tree1, call, sources, idx, built, prev, op>>

\* the caller calls resolve_references again on the tree a success left
SecondCall ==
    /\ pc = "done"
    /\ result = OkResult
    /\ built = NoBuild
    /\ call = 1
    /\ call' = 2
    /\ tree1' = table
    /\ pc' = "resolve"
    /\ iter' = 0
    /\ subs' = << >>
    /\ result' = Pending
    /\ UNCHANGED <<table, tree0, sources, idx, built, prev, op>>

NextResolve == PassError \/ PassFixed \/ PassAgain \/ SecondCall

SpecResolve == InitResolve /\ [][NextResolve]_vars

(***************************************************************************)
(* The merge engine driven entry by entry                                  *)
(***************************************************************************)
\* entries merged into one tree before the exploration stops
MaxOps == 2

T_empty == EmptyTable

T_server == ka :> VTbl(kb :> VStr(<<"l">>) @@ kc :> VInt(8))

T_port == ka :> VTbl(kc :> VInt(9))

T_arr12 == ka :> VArr(<<VInt(1), VInt(2)>>)

T_arr3 == ka :> VArr(<<VInt(3)>>)

T_flat == ka :> VInt(1) @@ kb :> VStr(<<"k">>)

T_deep1 == ka :> VTbl(kb :> VTbl(kc :> VInt(1))) @@ kb :> VArr(<<VTbl(ka :> VInt(1))>>)

T_deep2 == ka :> VTbl(kb :> VTbl(kc :> VInt(2) @@ ka :> VBool(TRUE))) @@ kc :> VFloat(15, 1)

T_leaf == ka :> VTbl(kb :> VInt(7))

T_mixed == kb :> VTbl(ka :> VStr(<<"x">>)) @@ ka :> VTbl(kb :> VArr(<<VInt(1), VInt(2)>>))

TablePool ==
    {T_empty, T_server, T_port, T_arr12, T_arr3, T_flat, T_deep1, T_deep2, T_leaf, T_mixed}

EntryPool ==
    {Entry("merge", << >>, VTbl(t)) : t \in TablePool}
    \cup {Entry("merge", << >>, VInt(1)), Entry("merge", << >>, VArr(<<VInt(3)>>))}
    \cup {Entry("merge", p, v) :
            p \in {<<ka>>, <<ka, kb>>, <<ka, kb, kc>>, <<kc, ka>>},
            v \in {VInt(5), VTbl(kc :> VInt(3)), VArr(<<VInt(3)>>)}}

\* environment entries: path segments as split from the variable name
EnvEntryPool ==
    {Entry("insert", p, v) :
        p \in {<<<<"A">>>>, <<<<"A">>, <<"B">>>>, <<<<"A">>, <<"C">>>>, <<<<"b">>, <<"A">>>>},
        v \in {VInt(5), VStr(<<"p">>)}}

InitMerge ==
    /\ table \in TablePool
    /\ prev = table
    /\ op = NoOp
    /\ idx = 0
    /\ pc = "merge"
    /\ tree0 = table
    /\ tree1 = EmptyTable
    /\ iter = 0
    /\ subs = << >>
    /\ result = Pending
    /\ call = 1
    /\ sources = << >>
    /\ built = NoBuild

\* merge_at_path(&mut table, &entry.path, entry.value)
MergeEntry ==
    /\ pc = "merge"
    /\ idx < MaxOps
    /\ \E e \in EntryPool :
         /\ table' = merge_at_path(table, e.path, e.value)
         /\ op' = e
    /\ prev' = table
    /\ idx' = idx + 1
    /\ UNCHANGED <<tree0, tree1, pc, iter, subs, result, call, sources, built>>

\* insert_at_path(table, &path, coerced_value)
InsertEntry ==
    /\ pc = "merge"
    /\ idx < MaxOps
    /\ \E e \in EnvEntryPool :
         /\ table' = insert_at_path(table, e.path, e.value)
         /\ op' = e
    /\ prev' = table
    /\ idx' = idx + 1
    /\ UNCHANGED <<tree0, tree1, pc, iter, subs, result, call, sources, built>>

NextMerge == MergeEntry \/ InsertEntry

SpecMerge == InitMerge /\ [][NextMerge]_vars

(***************************************************************************)
(* Config::build                                                           *)
(***************************************************************************)
\* sources registered on one builder
MaxSources == 3

FileSrc(path, required, fs, content) ==
    [kind |-> "File", path |-> path, required |-> required, fs |-> fs,
     content |-> content, prefix |-> << >>, separator |-> << >>, environ |-> << >>]

EnvSrc(prefix, separator, environ) ==
    [kind |-> "Env", path |-> << >>, required |-> FALSE, fs |-> "ok",
     content |-> EmptyTable, prefix |-> prefix, separator |-> separator,
     environ |-> environ]

APP == <<"A", "P", "P">>

SEP == <<"_", "_">>

EnvHost ==
    << <<APP \o SEP \o <<"A">> \o SEP \o <<"B">>, <<"p", "r", "o", "d">>>>,
       <<APP \o <<"X">> \o SEP \o <<"A">>, <<"1">>>>,
       <<APP \o SEP, <<"v">>>> >>

EnvNested ==
    << <<APP \o SEP \o <<"A">>, <<"2">>>>,
       <<APP \o SEP \o <<"A">> \o SEP \o <<"B">>, <<"1">>>>,
       <<<<"H", "O", "M", "E">>, <<"h">>>> >>

SourcePool ==
    { FileSrc(<<"A">>, TRUE, "ok", T_server),
      FileSrc(<<"B">>, FALSE, "ok", T_port),
      FileSrc(<<"R">>, TRUE, "ok", kb :> VStr(Ref(<<"a", ".", "b">>) \o <<":">> \o Ref(<<"a", ".", "c">>))),
      FileSrc(<<"S">>, FALSE, "ok", ka :> VArr(<<VInt(3)>>) @@ kc :> VStr(Ref(ka))),
      FileSrc(<<"M">>, TRUE, "absent", EmptyTable),
      FileSrc(<<"O">>, FALSE, "absent", EmptyTable),
      FileSrc(<<"P">>, TRUE, "malformed", EmptyTable),
      FileSrc(<<"U">>, FALSE, "unreadable", EmptyTable),
      EnvSrc(APP, SEP, EnvHost),
      EnvSrc(APP, SEP, EnvNested) }

InitBuild ==
    /\ sources \in UNION {[1..n -> SourcePool] : n \in 0..MaxSources}
    /\ idx = 1
    /\ built = Pending
    /\ table = EmptyTable
    /\ pc = "load"
    /\ tree0 = EmptyTable
    /\ tree1 = EmptyTable
    /\ iter = 0
    /\ subs = << >>
    /\ result = Pending
    /\ call = 1
    /\ prev = EmptyTable
    /\ op = NoOp

AtSource(kind) == pc = "load" /\ idx <= Len(sources) /\ sources[idx].kind = kind

\* a load that merges the tree so far over the file instead
LoadFileMerge_swapped ==
    /\ AtSource("File")
    /\ LET r == load_config_file(sources[idx], sources[idx].required)
       IN  /\ r.err = NoErr /\ r.some
           /\ table' = builder_deep_merge(r.tbl, table)
    /\ idx' = idx + 1
    /\ UNCHANGED <<tree0, tree1, pc, iter, subs, result, call, sources, built, prev, op>>

\* ConfigSource::File, load_config_file gives Some(table): deep_merge it
LoadFileMerge ==
    /\ AtSource("File")
    /\ LET r == load_config_file(sources[idx], sources[idx].required)
       IN  /\ r.err = NoErr /\ r.some
           /\ table' = builder_deep_merge(table, r.tbl)
    /\ idx' = idx + 1
    /\ UNCHANGED <<tree0, tree1, pc, iter, subs, result, call, sources, built, prev, op>>

\* ConfigSource::File, load_config_file gives None: nothing is merged
LoadFileSkip ==
    /\ AtSource("File")
    /\ LET r == load_config_file(sources[idx], sources[idx].required)
       IN  r.err = NoErr /\ ~r.some
    /\ idx' = idx + 1
    /\ UNCHANGED <<table, tree0, tree1, pc, iter, subs, result, call, sources, built, prev, op>>

\* a build that drops the error of a file and goes on to the next source
LoadFileFail_continue ==
    /\ AtSource("File")
    /\ LET r == load_config_file(sources[idx], sources[idx].required)
       IN  r.err # NoErr
    /\ idx' = idx + 1
    /\ UNCHANGED <<table, tree0, tree1, pc, iter, subs, result, call, sources, built, prev, op>>

\* ConfigSource::File, load_config_file fails: `?` returns the error
LoadFileFail ==
    /\ AtSource("File")
    /\ LET r == load_config_file(sources[idx], sources[idx].required)
       IN  /\ r.err # NoErr
           /\ built' = r.err
    /\ pc' = "end"
    /\ UNCHANGED <<table, tree0, tree1, iter, subs, result, call, sources, idx, prev, op>>

\* ConfigSource::Env
LoadEnv ==
    /\ AtSource("Env")
    /\ table' = load_env_vars(table, sources[idx].prefix, sources[idx].separator,
                              sources[idx].environ)
    /\ idx' = idx + 1
    /\ UNCHANGED <<tree0, tree1, pc, iter, subs, result, call, sources, built, prev, op>>

\* the for loop over the sources is over: resolve_references(&mut merged)
StartResolve ==
    /\ pc = "load"
    /\ idx > Len(sources)
    /\ pc' = "resolve"
    /\ tree0' = table
    /\ UNCHANGED <<table, tree1, iter, subs, result, call, sources, idx, built, prev, op>>

\* resolve_references(&mut merged)? returns its error
ResolveFailed ==
    /\ pc = "done"
    /\ built = Pending
    /\ result # OkResult
    /\ built' = result
    /\ pc' = "end"
    /\ UNCHANGED <<table, tree0, tree1, iter, subs, result, call, sources, idx, prev, op>>

\* value.try_into() succeeds for the target type
DecodeOk ==
    /\ pc = "done"
    /\ built = Pending
    /\ result = OkResult
    /\ built' = OkResult
    /\ pc' = "end"
    /\ UNCHANGED <<table, tree0, tree1, iter, subs, result, call, sources, idx, prev, op>>

\* value.try_into() fails: the tree does not fit the target type
DecodeFail ==
    /\ pc = "done"
    /\ built = Pending
    /\ result = OkResult
    /\ built' = Err("DeserializeError", << >>)
    /\ pc' = "end"
    /\ UNCHANGED <<table, tree0, tree1, iter, subs, result, call, sources, idx, prev, op>>

NextBuild ==
    \/ LoadFileMerge \/ LoadFileSkip \/ LoadFileFail \/ LoadEnv \/ StartResolve
    \/ PassError \/ PassFixed \/ PassAgain
    \/ ResolveFailed \/ DecodeOk \/ DecodeFail

SpecBuild == InitBuild /\ [][NextBuild]_vars

(***************************************************************************)
(* load_env_vars driven variable by variable                               *)
(***************************************************************************)
\* environment variables handed to one load_env_vars call before the
\* exploration stops
MaxVars == 2

US == <<"_">>

\* names of environment variables
EnvKeyPool ==
    {
      <<"A", "P", "P", "_", "_", "A">>, <<"A", "P", "P", "_", "_", "A", "_", "_", "B">>,
      <<"A", "P", "P", "_", "_">>, <<"A", "P", "P", "X", "_", "_", "A">>,
      <<"A", "P", "P", "_", "A">>, <<"H", "O", "M", "E">>,
      <<"A", "P", "P", "_", "_", "A", "b", "_", "_", "C">>, <<"a", "p", "p", "_", "_", "A">>,
      <<"A", "P", "P">>, <<"A", "P", "P", "_", "_", "A", "_", "_", "_", "_", "B">>,
      <<"A", "P", "P", "_", "_", "A", "_", "_">>, <<"X", "A", "P", "P", "_", "_", "A">>,
      <<"A", "P", "P", "_", "A", "_", "B">>, <<"A", "P", "P", "_">>
    }

\* raw texts of environment variables
EnvRawPool ==
    {
      <<"t", "r", "u", "e">>, <<"T", "R", "U", "E">>, <<"F", "a", "l", "s", "e">>,
      <<"t", "R", "u", "E">>, <<"t", "r", "u", "e", "e">>, <<"4", "2">>, <<"-", "1", "2", "3">>,
      <<"0">>, <<"0", "0", "7">>, <<"-", "0">>, <<"-", "0", "0", "7">>, << >>, <<"-">>,
      <<"1", ".", "2", ".", "3">>, <<"3", ".", "1", "4">>, <<"-", "2", ".", "5">>,
      <<"0", ".", "0">>, <<".">>, <<".", "5">>, <<"5", ".">>, <<"+", "5">>, <<"4", " ", "2">>,
      <<"1", "e", "5">>, <<"1", ".", "5", "e", "3">>,
      <<"9", "2", "2", "3", "3", "7", "2", "0", "3", "6", "8", "5", "4", "7", "7", "5", "8", "0", "8">>,
      <<"-", "9", "2", "2", "3", "3", "7", "2", "0", "3", "6", "8", "5", "4", "7", "7", "5", "8", "0", "9">>,
      <<"h", "e", "l", "l", "o">>, <<"1", "2", "a">>, <<"-", "-", "5">>, <<"1", "-">>,
      <<"1", ".", "5", ".">>, <<"-", ".", "5">>,
      <<"2", "1", "4", "7", "4", "8", "3", "6", "4", "7">>
    }

\* the environment: every name with one text, one matching name with every text
EnvVarPool ==
    {<<k, <<"v">>>> : k \in EnvKeyPool} \cup {<<APP \o SEP \o <<"A">>, r>> : r \in EnvRawPool}

InitEnv ==
    /\ table \in {T_empty, T_server, T_flat}
    /\ sources \in {<<EnvSrc(APP, SEP, << >>)>>, <<EnvSrc(APP, US, << >>)>>}
    /\ prev = table
    /\ op = NoOp
    /\ idx = 0
    /\ pc = "env"
    /\ tree0 = table
    /\ tree1 = EmptyTable
    /\ iter = 0
    /\ subs = << >>
    /\ result = Pending
    /\ call = 1
    /\ built = NoBuild

\* one turn of the for loop of load_env_vars: std::env::vars() yields a
\* variable; op records its name and raw text
LoadVar ==
    /\ pc = "env"
    /\ idx < MaxVars
    /\ \E v \in EnvVarPool :
         /\ table' = load_env_var(table, sources[1].prefix \o sources[1].separator,
                                  sources[1].separator, v[1], v[2])
         /\ op' = Entry("env", <<v[1]>>, VStr(v[2]))
    /\ prev' = table
    /\ idx' = idx + 1
    /\ UNCHANGED <<tree0, tree1, pc, iter, subs, result, call, sources, built>>

NextEnv == LoadVar

SpecEnv == InitEnv /\ [][NextEnv]_vars

(***************************************************************************)
(* Vocabulary of the properties: positions of a tree, the references and   *)
(* escapes a text is read as, the reference graph and the full expansion   *)
(***************************************************************************)
\* step of a position through the i-th item of an array
ArrKey(i) == <<"#", Digit(i)>>

\* positions of the String values of a tree
RECURSIVE StrPaths(_)
StrPaths(val) ==
    CASE val[1] = "String" -> {<< >>}
      [] val[1] = "Table"  ->
           UNION {{<<k>> \o p : p \in StrPaths(val[2][k])} : k \in DOMAIN val[2]}
      [] val[1] = "Array"  ->
           UNION {{<<ArrKey(i)>> \o p : p \in StrPaths(val[2][i])} : i \in DOMAIN val[2]}
      [] OTHER -> {}

RECURSIVE GetAt(_, _)
GetAt(val, p) ==
    IF p = << >> THEN val
    ELSE IF val[1] = "Array"
         THEN GetAt(val[2][CHOOSE i \in DOMAIN val[2] : ArrKey(i) = Head(p)], Tail(p))
         ELSE GetAt(val[2][Head(p)], Tail(p))

\* the text of the String at position p of a root table
TextAt(tbl, p) == GetAt(VTbl(tbl), p)[2]

\* a text read left to right as the reference syntax defines it: a sequence
\* of tokens chr, esc ($$), ref (${...}, a..b the path), unclosed, lone
RECURSIVE Tokens(_, _)
Tokens(s, i) ==
    IF i > Len(s) THEN << >>
    ELSE IF s[i] # "$" THEN <<[k |-> "chr", a |-> i, b |-> i]>> \o Tokens(s, i + 1)
    ELSE IF i < Len(s) /\ s[i + 1] = "$"
         THEN <<[k |-> "esc", a |-> i, b |-> i + 1]>> \o Tokens(s, i + 2)
    ELSE IF i < Len(s) /\ s[i + 1] = "{"
         THEN LET j == IndexFrom(s, i + 2, "}")
              IN  IF j = 0 THEN <<[k |-> "unclosed", a |-> i, b |-> Len(s)]>>
                  ELSE <<[k |-> "ref", a |-> i + 2, b |-> j - 1]>> \o Tokens(s, j + 1)
    ELSE <<[k |-> "lone", a |-> i, b |-> i]>> \o Tokens(s, i + 1)

TokensOf(s) == Tokens(s, 1)

HasToken(s, kind) == \E i \in DOMAIN TokensOf(s) : TokensOf(s)[i].k = kind

\* paths of the references of a text
RefsOf(s) ==
    {SubSeq(s, TokensOf(s)[i].a, TokensOf(s)[i].b) :
        i \in {j \in DOMAIN TokensOf(s) : TokensOf(s)[j].k = "ref"}}

\* the literal texts ${X} that a text escapes as $${X}
EscapedRefs(s) ==
    LET toks == TokensOf(s)
        at   == {i \in DOMAIN toks :
                    /\ toks[i].k = "esc"
                    /\ toks[i].b < Len(s)
                    /\ s[toks[i].b + 1] = "{"
                    /\ IndexFrom(s, toks[i].b + 2, "}") # 0}
    IN  {SubSeq(s, toks[i].b, IndexFrom(s, toks[i].b + 2, "}")) : i \in at}

Contains(s, sub) ==
    \E i \in 1..(Len(s) - Len(sub) + 1) : SubSeq(s, i, i + Len(sub) - 1) = sub

\* the value a dotted path names, through nested tables only; Absent if none
RECURSIVE TGet(_, _)
TGet(val, parts) ==
    IF parts = << >> THEN val
    ELSE IF val[1] = "Table" /\ Head(parts) \in DOMAIN val[2]
         THEN TGet(val[2][Head(parts)], Tail(parts))
         ELSE Absent

IsScalar(val) == val[1] \in {"String", "Integer", "Float", "Boolean", "Datetime"}

\* a reference that is closed, names an existing path and a scalar
ValidRef(tbl, path) ==
    /\ \A i \in DOMAIN Split(path, ".") : Split(path, ".")[i] # << >>
    /\ IsScalar(TGet(VTbl(tbl), Split(path, ".")))

AllRefsValid(tbl) ==
    \A p \in StrPaths(VTbl(tbl)) :
        /\ ~HasToken(TextAt(tbl, p), "unclosed")
        /\ \A r \in RefsOf(TextAt(tbl, p)) : ValidRef(tbl, r)

\* no `$` outside a ${...} reference
OnlyRefDollars(tbl) ==
    \A p \in StrPaths(VTbl(tbl)) :
        \A k \in {"esc", "lone", "unclosed"} : ~HasToken(TextAt(tbl, p), k)

\* the reference graph: the String at p references the String at q
RefEdge(tbl, p, q) == \E r \in RefsOf(TextAt(tbl, p)) : Split(r, ".") = q

RECURSIVE Reach(_, _, _)
Reach(tbl, from, n) ==
    IF n = 0 THEN from
    ELSE Reach(tbl, from \cup {q \in StrPaths(VTbl(tbl)) :
                                 \E p \in from : RefEdge(tbl, p, q)}, n - 1)

Cyclic(tbl) ==
    \E p \in StrPaths(VTbl(tbl)) :
        p \in Reach(tbl, {q \in StrPaths(VTbl(tbl)) : RefEdge(tbl, p, q)},
                    Cardinality(StrPaths(VTbl(tbl))))

\* canonical text of a scalar, written from the value model
ScalarText(val) ==
    CASE val[1] = "String"   -> val[2]
      [] val[1] = "Integer"  -> IntToStr(val[2])
      [] val[1] = "Float"    -> FloatToStr(val[2])
      [] val[1] = "Boolean"  -> BoolToStr(val[2])
      [] val[1] = "Datetime" -> DateToStr(val[2])

\* full transitive expansion of a text whose `$` all open valid references
RECURSIVE Expand(_, _, _)
RECURSIVE ExpandToks(_, _, _, _, _)
Expand(tbl, s, fuel) == ExpandToks(tbl, s, TokensOf(s), 1, fuel)

ExpandToks(tbl, s, toks, i, fuel) ==
    IF i > Len(toks) THEN << >>
    ELSE (IF toks[i].k = "ref" /\ fuel > 0
          THEN LET tgt == TGet(VTbl(tbl), Split(SubSeq(s, toks[i].a, toks[i].b), "."))
               IN  IF tgt[1] = "String" THEN Expand(tbl, tgt[2], fuel - 1)
                   ELSE ScalarText(tgt)
          ELSE SubSeq(s, toks[i].a, toks[i].b))
         \o ExpandToks(tbl, s, toks, i + 1, fuel)

(***************************************************************************)
(* Properties of the resolver                                              *)
(***************************************************************************)
FirstCallDone == call = 1 /\ pc = "done"

Circular == Err("CircularReference", << >>)

\* C1: when resolve_references succeeds, every String that initially held an
\* escape $${X} still holds the literal text ${X} in the final tree.
C1_EscapeSurvives ==
    (FirstCallDone /\ result = OkResult) =>
        \A p \in StrPaths(VTbl(tree0)) :
            \A e \in EscapedRefs(TextAt(tree0, p)) : Contains(TextAt(table, p), e)

\* C2: a second call on a tree that a first call resolved makes no
\* substitution, returns success and leaves the tree unchanged.
C2_Idempotent ==
    call = 2 =>
        /\ result \in {Pending, OkResult}
        /\ \A i \in DOMAIN subs : subs[i] = 0
        /\ table = tree1

\* the case of C3: acyclic, every reference valid, no `$` but in references
ChainCase(tbl) == ~Cyclic(tbl) /\ AllRefsValid(tbl) /\ OnlyRefDollars(tbl)

NoRefLeft(s) == ~Contains(s, <<"$", "{">>)

\* C3: on an acyclic tree of valid references resolve_references never
\* fails, keeps making progress below the pass cap, and on return every
\* String equals its full transitive expansion, with no ${ left.
C3_ChainsResolve ==
    (call = 1 /\ ChainCase(tree0)) =>
        /\ result \in {Pending, OkResult}
        /\ pc = "resolve" =>
              /\ iter < MAX_ITERATIONS
              /\ LET r == resolve_pass(table, Snapshot(table), CHOOSE o \in Orders(table) : TRUE)
                 IN  r.err = NoErr /\ MaxLenIn(r.val) <= MaxStrLen
        /\ pc = "done" =>
              \A p \in StrPaths(VTbl(tree0)) :
                  /\ TextAt(table, p)
                       = Expand(tree0, TextAt(tree0, p), Cardinality(StrPaths(VTbl(tree0))))
                  /\ NoRefLeft(TextAt(table, p))

\* a chain of two hops (c -> b -> a) has been resolved
C3_Witness ==
    /\ FirstCallDone /\ result = OkResult /\ ChainCase(tree0)
    /\ Len(subs) >= 3
    /\ \E p, q \in StrPaths(VTbl(tree0)) :
          /\ p # q
          /\ RefEdge(tree0, p, q)
          /\ RefsOf(TextAt(tree0, q)) # {}

\* C4: a tree with a reference cycle never resolves successfully, and when
\* all its references are valid the outcome is CircularReference.
C4_CyclesRejected ==
    (FirstCallDone /\ Cyclic(tree0)) =>
        /\ result # OkResult
        /\ AllRefsValid(tree0) => result = Circular

\* a pass that completed: the step left the loop with Ok or went on
PassCompleted == pc = "resolve" /\ Len(subs') = Len(subs) + 1

\* C5: a completed pass rewrites every String against the tree as it was
\* when the pass began, and every iteration order gives that same tree
\* and substitution count.
C5_SnapshotPerPass ==
    [][PassCompleted =>
        /\ \A p \in StrPaths(VTbl(table)) :
              VStr(TextAt(table', p)) = resolve_string(TextAt(table, p), table).val
        /\ \A ord \in Orders(table) :
              resolve_pass(table, Snapshot(table), ord)
                = [err |-> NoErr, val |-> VTbl(table'), n |-> subs'[Len(subs')]]]_vars

\* a pass rewrote a String whose reference names a String rewritten in the
\* same pass
C5_Witness ==
    /\ pc = "resolve" /\ iter = 1 /\ call = 1
    /\ \E p, q \in StrPaths(VTbl(tree0)) :
          /\ RefEdge(tree0, p, q)
          /\ RefsOf(TextAt(tree0, q)) # {}
          /\ TextAt(tree0, q) # TextAt(table, q)
          /\ TextAt(table, p) = TextAt(tree0, q)

AllPositive(q) == \A i \in DOMAIN q : q[i] > 0

\* C6: at most MAX_ITERATIONS passes run; success is returned at the first
\* pass without substitution; CircularReference is returned exactly when
\* MAX_ITERATIONS passes each completed with at least one substitution.
C6_PassCap ==
    /\ iter = Len(subs) /\ iter <= MAX_ITERATIONS
    /\ pc = "resolve" => (result = Pending /\ iter < MAX_ITERATIONS /\ AllPositive(subs))
    /\ pc = "done" => result # Pending
    /\ result = OkResult =>
          subs # << >> /\ subs[Len(subs)] = 0 /\ AllPositive(SubSeq(subs, 1, Len(subs) - 1))
    /\ result = Circular <=> (Len(subs) = MAX_ITERATIONS /\ AllPositive(subs))
    /\ (pc = "done" /\ result \notin {OkResult, Circular}) =>
          (Len(subs) < MAX_ITERATIONS /\ AllPositive(subs))

C6_Witness == result = Circular /\ iter = MAX_ITERATIONS

(***************************************************************************)
(* Properties of the merge engine and of the build                         *)
(***************************************************************************)
\* what one source contributes to the tree it is applied to
ApplySource(tbl, src) ==
    IF src.kind = "Env"
    THEN load_env_vars(tbl, src.prefix, src.separator, src.environ)
    ELSE IF src.fs = "ok" THEN builder_deep_merge(tbl, src.content) ELSE tbl

\* left-to-right fold of a list of sources over a table
RECURSIVE FoldSources(_, _)
FoldSources(tbl, srcs) ==
    IF srcs = << >> THEN tbl ELSE FoldSources(ApplySource(tbl, Head(srcs)), Tail(srcs))

\* deep_merge(...deep_merge(deep_merge(tbl, T1), T2)..., Tn) for files T1..Tn
RECURSIVE MergeChain(_, _)
MergeChain(tbl, srcs) ==
    IF srcs = << >> THEN tbl
    ELSE MergeChain(deep_merge(tbl, Head(srcs).content), Tail(srcs))

\* build has called resolve_references on the merged tree
Handed == built # NoBuild /\ (pc \in {"resolve", "done"} \/ result # Pending)

AllFiles(srcs) == \A i \in DOMAIN srcs : srcs[i].kind = "File" /\ srcs[i].fs = "ok"

\* C7: sources are applied in registration order, each exactly once: while
\* loading, the merged tree is the fold of the sources before idx, and the
\* tree handed to the resolver is the fold of all of them, which for
\* root-level tables is the chain of deep merges over the empty table.
C7_RegistrationOrder ==
    /\ (built # NoBuild /\ pc = "load") =>
          table = FoldSources(EmptyTable, SubSeq(sources, 1, idx - 1))
    /\ Handed =>
          /\ tree0 = FoldSources(EmptyTable, sources)
          /\ AllFiles(sources) => tree0 = MergeChain(EmptyTable, sources)

Reverse(q) == [i \in DOMAIN q |-> q[Len(q) + 1 - i]]

\* three sources were merged and their order mattered
C7_Witness ==
    /\ Handed
    /\ Len(sources) = 3
    /\ \A i \in DOMAIN sources : ApplySource(EmptyTable, sources[i]) # EmptyTable
    /\ tree0 # FoldSources(EmptyTable, Reverse(sources))

\* key paths of a tree, through tables
RECURSIVE PathsOf(_)
PathsOf(val) ==
    IF val[1] = "Table"
    THEN UNION {{<<k>>} \cup {<<k>> \o p : p \in PathsOf(val[2][k])} : k \in DOMAIN val[2]}
    ELSE {}

\* the tree a source yields on its own
Own(src) == ApplySource(EmptyTable, src)

\* the contributions of a source one by one, each as a tree of its own: the
\* table of a file, one environment variable
ContributionsOf(src) ==
    IF src.kind = "Env"
    THEN [i \in DOMAIN src.environ |->
            load_env_var(EmptyTable, src.prefix \o src.separator, src.separator,
                         src.environ[i][1], src.environ[i][2])]
    ELSE IF src.fs = "ok" THEN <<src.content>> ELSE << >>

\* a contribution at p, at a prefix of p or below p
Touches(tbl, p) == Head(p) \in DOMAIN tbl

NonTableAt(tbl, p) == TGet(VTbl(tbl), p)[1] \notin {"Absent", "Table"}

\* a contribution leaves q alone: nothing at q, and tables (if anything) at
\* the prefixes of q
LeavesAlone(tbl, q) ==
    /\ TGet(VTbl(tbl), q) = Absent
    /\ \A n \in 1..(Len(q) - 1) :
          TGet(VTbl(tbl), SubSeq(q, 1, n))[1] \in {"Absent", "Table"}

LastTouching(p) ==
    LET I == {i \in DOMAIN sources : Touches(Own(sources[i]), p)}
    IN  IF I = {} THEN 0 ELSE CHOOSE i \in I : \A j \in I : j <= i

AllPaths == UNION {PathsOf(VTbl(Own(sources[i]))) : i \in DOMAIN sources}

ScenarioSources ==
    << FileSrc(<<"A">>, TRUE, "ok", T_server), FileSrc(<<"B">>, FALSE, "ok", T_port),
       EnvSrc(APP, SEP, EnvHost) >>

\* C8: in the merged tree a non-table value of the last source that
\* contributes at p, at a prefix of p or below p stands at p; a value that
\* only sources up to the j-th set, inside tables that every later
\* contribution treats as tables, is the value it had after the j-th
\* source; file A host/port, file B port, env host give env's host, B's port.
C8_LaterOverrides ==
    Handed =>
        /\ \A p \in AllPaths :
              (LastTouching(p) # 0 /\ NonTableAt(Own(sources[LastTouching(p)]), p)) =>
                  TGet(VTbl(tree0), p) = TGet(VTbl(Own(sources[LastTouching(p)])), p)
        /\ \A j \in 0..Len(sources) :
              LET mj == FoldSources(EmptyTable, SubSeq(sources, 1, j))
              IN  \A q \in PathsOf(VTbl(mj)) :
                      (\A i \in (j + 1)..Len(sources) :
                          \A c \in DOMAIN ContributionsOf(sources[i]) :
                              LeavesAlone(ContributionsOf(sources[i])[c], q))
                      => TGet(VTbl(tree0), q) = TGet(VTbl(mj), q)
        /\ sources = ScenarioSources =>
              /\ TGet(VTbl(tree0), <<ka, kb>>) = VStr(<<"p", "r", "o", "d">>)
              /\ TGet(VTbl(tree0), <<ka, kc>>) = VInt(9)

C8_Witness == Handed /\ sources = ScenarioSources /\ pc = "end" /\ built = OkResult

\* deep merge as the merge rule states it, key by key
RECURSIVE MergeSpec(_, _)
MergeSpec(base, overlay) ==
    [k \in (DOMAIN base) \cup (DOMAIN overlay) |->
        IF k \notin DOMAIN overlay THEN base[k]
        ELSE IF k \in DOMAIN base /\ IsTable(base[k]) /\ IsTable(overlay[k])
             THEN VTbl(MergeSpec(base[k][2], overlay[k][2]))
             ELSE overlay[k]]

RootMerge == op.kind = "merge" /\ op.path = << >> /\ IsTable(op.value)

\* C9: a root-level merge leaves, for every key and at every depth, the
\* recursive merge where base and overlay both hold tables, the overlay's
\* value where the overlay has the key otherwise, and the base's value where
\* the overlay lacks the key; so do both copies of deep_merge.
C9_DeepMergeRule ==
    RootMerge =>
        /\ table = MergeSpec(prev, op.value[2])
        /\ builder_deep_merge(prev, op.value[2]) = MergeSpec(prev, op.value[2])

BothTables(x, y, k) ==
    /\ k \in DOMAIN x /\ k \in DOMAIN y /\ IsTable(x[k]) /\ IsTable(y[k])

\* a merge that recursed two tables deep, replaced an array by a table and
\* kept a key of the base
C9_Witness ==
    /\ RootMerge
    /\ \E k \in DOMAIN prev :
          /\ BothTables(prev, op.value[2], k)
          /\ \E j \in DOMAIN prev[k][2] :
                /\ BothTables(prev[k][2], op.value[2][k][2], j)
                /\ table[k][2][j] \notin {prev[k][2][j], op.value[2][k][2][j]}
    /\ \E k \in DOMAIN prev : k \notin DOMAIN op.value[2]
    /\ \E k \in DOMAIN op.value[2] : k \notin DOMAIN prev

\* C10: merging a table into itself leaves it unchanged, for every table the
\* merge engine reaches and for both copies of deep_merge.
C10_MergeIdempotent ==
    /\ deep_merge(table, table) = table
    /\ builder_deep_merge(table, table) = table
    /\ (RootMerge /\ op.value = VTbl(prev)) => table = prev

\* a table with an array and nested tables was merged into itself
C10_Witness ==
    /\ RootMerge /\ op.value = VTbl(prev)
    /\ \E k \in DOMAIN prev : prev[k][1] = "Array"
    /\ \E k \in DOMAIN prev :
          IsTable(prev[k]) /\ \E j \in DOMAIN prev[k][2] : IsTable(prev[k][2][j])

(***************************************************************************)
(* Properties of the path-targeted merge                                   *)
(***************************************************************************)
\* the path an entry writes to: the environment inserter lowercases segments
TargetPath(e) ==
    IF e.kind = "insert" THEN [i \in DOMAIN e.path |-> to_lowercase(e.path[i])]
    ELSE e.path

\* the last step merged or inserted a non-table value at a non-empty path
LeafAtPath == op.kind \in {"merge", "insert"} /\ op.path # << >> /\ ~IsTable(op.value)

\* keys of the table at path q of a tree, none when no table stands there
KeysAt(tbl, q) ==
    IF IsTable(TGet(VTbl(tbl), q)) THEN DOMAIN TGet(VTbl(tbl), q)[2] ELSE {}

\* C11: merging or inserting a non-table value V at a non-empty path leaves V
\* exactly at that path (lowercased for the environment inserter); every
\* proper prefix of the path holds a table whose keys are the keys of the
\* table that stood there before (none if there was no table) plus the next
\* segment, all other keys with their old values; on the empty tree the path
\* [a, b] yields {a: {b: V}}.
C11_PathInsert ==
    LeafAtPath =>
        LET p == TargetPath(op)
        IN  /\ TGet(VTbl(table), p) = op.value
            /\ \A n \in 0..(Len(p) - 1) :
                  LET q == SubSeq(p, 1, n)
                  IN  /\ IsTable(TGet(VTbl(table), q))
                      /\ KeysAt(table, q) = KeysAt(prev, q) \cup {p[n + 1]}
                      /\ \A k \in KeysAt(prev, q) \ {p[n + 1]} :
                            TGet(VTbl(table), Append(q, k)) = TGet(VTbl(prev), Append(q, k))
            /\ (prev = EmptyTable /\ p = <<ka, kb>>) => table = (ka :> VTbl(kb :> op.value))

\* a three-segment merge kept a sibling in an existing table and replaced a
\* string that stood in the way of the path by a new table
C11_Witness ==
    /\ LeafAtPath /\ op.kind = "merge" /\ Len(op.path) = 3
    /\ IsTable(TGet(VTbl(prev), SubSeq(op.path, 1, 1)))
    /\ TGet(VTbl(prev), SubSeq(op.path, 1, 2))[1] = "String"
    /\ KeysAt(prev, SubSeq(op.path, 1, 1)) \ {op.path[2]} # {}
    /\ KeysAt(table, SubSeq(op.path, 1, 2)) = {op.path[3]}

\* C12: merge_at_path with an empty path and a non-table value leaves the
\* tree exactly as it was.
C12_RootNonTableNoOp ==
    (op.kind = "merge" /\ op.path = << >> /\ ~IsTable(op.value)) => table = prev

\* a non-table value was merged at the root of a tree that is not empty
C12_Witness ==
    /\ op.kind = "merge" /\ op.path = << >> /\ ~IsTable(op.value)
    /\ idx = 2 /\ prev # EmptyTable /\ prev # tree0

(***************************************************************************)
(* Properties of reference lookup and of the scanner                       *)
(***************************************************************************)
\* reference paths looked up in every tree the resolver reaches
ProbePaths ==
    { << >>, ka, kb, kc, <<"z", "z">>, <<"a", ".">>, <<".", "a">>, <<"c", ".", "a">>,
      <<"c", ".", ".", "a">>, <<"c", ".", "z">>, <<"c", ".", "a", ".", "b">>,
      <<"z", ".", ".">> }

\* paths of all references written in the Strings of a tree
RefsIn(tbl) == UNION {RefsOf(TextAt(tbl, p)) : p \in StrPaths(VTbl(tbl))}

\* the outcome the lookup rule prescribes for a captured path
LookupOutcome(root, path) ==
    LET parts == Split(path, ".")
        found == TGet(VTbl(root), parts)
    IN  IF \E i \in DOMAIN parts : parts[i] = << >>
        THEN [err |-> Err("InvalidReferencePath", path), s |-> << >>]
        ELSE IF found = Absent
        THEN [err |-> Err("ReferenceNotFound", path), s |-> << >>]
        ELSE IF found[1] \in {"Table", "Array"}
        THEN [err |-> Err("NonScalarReference", path), s |-> << >>]
        ELSE [err |-> NoErr, s |-> ScalarText(found)]

OutcomeKinds(root, paths) == {LookupOutcome(root, r).err.kind : r \in paths}

\* C13: every captured path gets exactly the outcome of the rule, in its
\* precedence: InvalidReferencePath for an empty path or segment, else
\* ReferenceNotFound for a missing segment or a non-table met on the way,
\* else NonScalarReference for a Table or Array, else the text of the value,
\* which resolve_string substitutes for the reference.
C13_LookupClassified ==
    \A r \in ProbePaths \cup RefsIn(table) :
        LET exp == LookupOutcome(table, r)
        IN  /\ lookup_path(table, r) = exp
            /\ resolve_string(Ref(r), table)
                 = IF exp.err = NoErr THEN [err |-> NoErr, val |-> VStr(exp.s), n |-> 1]
                   ELSE [err |-> exp.err, val |-> VStr(Ref(r)), n |-> 0]

\* after a substituting pass, a tree on which the lookups give all four
\* outcomes, non-scalar for a Table and for an Array
C13_Witness ==
    /\ pc = "resolve" /\ iter >= 1
    /\ OutcomeKinds(table, ProbePaths \cup RefsIn(table))
         = {"None", "InvalidReferencePath", "ReferenceNotFound", "NonScalarReference"}
    /\ ka \in DOMAIN table /\ table[ka][1] = "Array"
    /\ kc \in DOMAIN table /\ table[kc][1] = "Table"
    /\ LookupOutcome(table, <<"c", ".", "a">>).err = NoErr

\* a String of the tree holds an unescaped ${ with no } after it
HasUnclosed(tbl) == \E p \in StrPaths(VTbl(tbl)) : HasToken(TextAt(tbl, p), "unclosed")

Unclosed == Err("UnclosedReference", << >>)

RECURSIVE Skeleton(_)
Skeleton(val) ==
    CASE val[1] = "String" -> VStr(<< >>)
      [] val[1] = "Table"  -> VTbl([k \in DOMAIN val[2] |-> Skeleton(val[2][k])])
      [] val[1] = "Array"  -> VArr([i \in DOMAIN val[2] |-> Skeleton(val[2][i])])
      [] OTHER -> val

\* C15: whatever resolve_references has done so far (completed passes, a
\* success, a failed pass), the tree differs from the tree it was given in
\* the text of String values only: key paths, array lengths, the type tag at
\* every position and every Integer, Float, Boolean and Datetime leaf are the
\* same, and a String whose text became all digits is still a String.
C15_StringLevelOnly ==
    /\ Skeleton(VTbl(table)) = Skeleton(VTbl(tree0))
    /\ \A p \in StrPaths(VTbl(tree0)) : GetAt(VTbl(table), p)[1] = "String"

\* resolve_references succeeded and left a String, inside an array or a
\* table, or at top level next to an Integer, whose text became all digits
C15_Witness ==
    /\ FirstCallDone /\ result = OkResult
    /\ \E p \in StrPaths(VTbl(tree0)) :
          /\ TextAt(table, p) # TextAt(tree0, p)
          /\ looks_like_integer(TextAt(table, p))
          /\ coerce_value(TextAt(table, p))[1] = "Integer"
    /\ \E p \in StrPaths(VTbl(tree0)) : Len(p) = 2 /\ TextAt(table, p) # TextAt(tree0, p)

(***************************************************************************)
(* Properties of the build pipeline                                        *)
(***************************************************************************)
MissingRequired(src) == src.kind = "File" /\ src.required /\ src.fs = "absent"

\* the error loading a source fails with, NoErr if it loads
LoadError(src) ==
    IF src.kind = "Env" THEN NoErr
    ELSE CASE src.fs = "ok"        -> NoErr
           [] src.fs = "malformed" -> Err("ParseError", src.path)
           [] src.fs = "absent"    -> IF src.required THEN Err("FileNotFound", src.path)
                                      ELSE NoErr
           [] OTHER                -> Err("ReadError", src.path)

\* position of the first source that satisfies P, 0 if none does
FirstWhere(P(_)) ==
    LET I == {i \in DOMAIN sources : P(sources[i])}
    IN  IF I = {} THEN 0 ELSE CHOOSE i \in I : \A j \in I : i <= j

FirstMissing == FirstWhere(MissingRequired)

FirstFailing == FirstWhere(LAMBDA src : LoadError(src) # NoErr)

\* the sources build has merged so far: loaded files and environments
MergedSoFar ==
    {i \in 1..(idx - 1) : i \in DOMAIN sources /\ LoadError(sources[i]) = NoErr
                          /\ (sources[i].kind = "Env" \/ sources[i].fs = "ok")}

NoResolutionYet == pc \in {"load", "end"} /\ result = Pending /\ iter = 0 /\ subs = << >>

OptionalAbsent(src) == src.kind = "File" /\ ~src.required /\ src.fs = "absent"

\* a list of sources without its absent optional files
WithoutOptionalAbsent(srcs) == SelectSeq(srcs, LAMBDA src : ~OptionalAbsent(src))

SourceErrorKinds == {"FileNotFound", "ReadError", "ParseError"}

ResolveErrorKinds ==
    {"CircularReference", "ReferenceNotFound", "InvalidReferencePath",
     "NonScalarReference", "UnclosedReference"}

\* C17: build ends with a decoded value only when every source loaded, the
\* fold of all sources was resolved successfully and decoding succeeded;
\* otherwise with the first error in pipeline order: the error of the first
\* failing source (no later source loaded, no resolution, no decoding), else
\* the resolver's error (no decoding), else the decode error.  Absent
\* optional files are no error and contribute nothing to the merged tree.
C17_FirstErrorOrValue ==
    built # NoBuild =>
        /\ pc = "end" <=> built # Pending
        /\ pc = "load" =>
              table = FoldSources(EmptyTable, WithoutOptionalAbsent(SubSeq(sources, 1, idx - 1)))
        /\ FirstFailing # 0 =>
              /\ NoResolutionYet /\ idx <= FirstFailing
              /\ built \in {Pending, LoadError(sources[FirstFailing])}
              /\ pc = "end" => idx = FirstFailing
        /\ FirstFailing = 0 =>
              /\ built.kind \notin SourceErrorKinds
              /\ Handed => tree0 = FoldSources(EmptyTable, WithoutOptionalAbsent(sources))
              /\ built.kind \in ResolveErrorKinds => (built = result /\ result # OkResult)
              /\ built.kind \in {"Ok", "DeserializeError"} =>
                    /\ result = OkResult
                    /\ subs # << >> /\ subs[Len(subs)] = 0
                    /\ resolve_pass(table, table, CHOOSE o \in Orders(table) : TRUE).n = 0
        /\ built.kind \in {"Pending", "Ok", "DeserializeError"}
              \cup SourceErrorKinds \cup ResolveErrorKinds

\* a build of three sources whose first is an absent optional file merged
\* the other two and ended with the error of the resolver
C17_Witness ==
    /\ built # NoBuild /\ pc = "end"
    /\ Len(sources) = 3 /\ OptionalAbsent(sources[1])
    /\ FoldSources(EmptyTable, sources) # EmptyTable
    /\ built.kind = "ReferenceNotFound" /\ built = result

(***************************************************************************)
(* Properties of the environment source                                    *)
(***************************************************************************)
\* the last step handed an environment variable to load_env_vars
EnvStep == op.kind = "env"

EnvKey == op.path[1]

EnvRaw == op.value[2]

UpperOf(c) ==
    CASE c = "t" -> "T" [] c = "r" -> "R" [] c = "u" -> "U" [] c = "e" -> "E"
      [] c = "f" -> "F" [] c = "a" -> "A" [] c = "l" -> "L" [] c = "s" -> "S"

\* s is the word w in any mix of upper and lower case
AnyCase(s, w) == Len(s) = Len(w) /\ \A i \in DOMAIN w : s[i] \in {w[i], UpperOf(w[i])}

DecimalDigits == {"0", "1", "2", "3", "4", "5", "6", "7", "8", "9"}

Unsigned(s) == IF s # << >> /\ s[1] = "-" THEN SubSeq(s, 2, Len(s)) ELSE s

\* an optional `-`, then one or more ASCII digits and nothing else
IntShaped(s) == Unsigned(s) # << >> /\ \A i \in DOMAIN Unsigned(s) : Unsigned(s)[i] \in DecimalDigits

\* the digits from the first non-zero one on
Significant(d) ==
    LET nz == {i \in DOMAIN d : d[i] # "0"}
    IN  IF nz = {} THEN << >> ELSE SubSeq(d, CHOOSE i \in nz : \A j \in nz : i <= j, Len(d))

\* d <= e as numbers, for digit texts of one length with no leading zero
LexLeq(d, e) ==
    \/ d = e
    \/ \E i \in DOMAIN d :
          /\ \A j \in 1..(i - 1) : d[j] = e[j]
          /\ \E x, y \in 0..9 : Digit(x) = d[i] /\ Digit(y) = e[i] /\ x < y

\* the decimal value of an integer-shaped text lies in -2^63 .. 2^63 - 1
FitsI64(s) ==
    LET d   == Significant(Unsigned(s))
        lim == IF s[1] = "-" THEN I64MinDigits ELSE I64MaxDigits
    IN  Len(d) < 19 \/ (Len(d) = 19 /\ LexLeq(d, lim))

RECURSIVE Horner(_, _)
Horner(d, acc) ==
    IF d = << >> THEN acc
    ELSE Horner(Tail(d), 10 * acc + (CHOOSE x \in 0..9 : Digit(x) = Head(d)))

DecimalValue(s) ==
    IF s[1] = "-" THEN 0 - Horner(Unsigned(s), 0) ELSE Horner(Unsigned(s), 0)

\* a decimal float literal: sign, digits with one `.` and a digit on one
\* side of it at least, optional exponent
FloatShaped(s) ==
    LET body == IF s # << >> /\ s[1] \in {"+", "-"} THEN SubSeq(s, 2, Len(s)) ELSE s
        es   == {i \in DOMAIN body : body[i] \in {"e", "E"}}
        mant == IF es = {} THEN body ELSE SubSeq(body, 1, (CHOOSE i \in es : \A j \in es : i <= j) - 1)
        expo == IF es = {} THEN << >>
                ELSE SubSeq(body, (CHOOSE i \in es : \A j \in es : i <= j) + 1, Len(body))
        edig == IF expo # << >> /\ expo[1] \in {"+", "-"} THEN SubSeq(expo, 2, Len(expo)) ELSE expo
    IN  /\ Cardinality({i \in DOMAIN mant : mant[i] = "."}) = 1
        /\ \A i \in DOMAIN mant : mant[i] \in DecimalDigits \cup {"."}
        /\ Len(mant) >= 2
        /\ es # {} => (edig # << >> /\ \A i \in DOMAIN edig : edig[i] \in DecimalDigits)

\* the variant of toml::Value the coercion rule gives a raw text
CoerceTag(s) ==
    IF AnyCase(s, <<"t", "r", "u", "e">>) \/ AnyCase(s, <<"f", "a", "l", "s", "e">>)
    THEN "Boolean"
    ELSE IF IntShaped(s) /\ FitsI64(s) THEN "Integer"
    ELSE IF (\E i \in DOMAIN s : s[i] = ".") /\ FloatShaped(s) THEN "Float"
    ELSE "String"

\* raw texts with the value the coercion rule gives each
CoerceCases ==
    {
      <<<<"t", "r", "u", "e">>, VBool(TRUE)>>,
      <<<<"T", "R", "U", "E">>, VBool(TRUE)>>,
      <<<<"F", "a", "l", "s", "e">>, VBool(FALSE)>>,
      <<<<"t", "R", "u", "E">>, VBool(TRUE)>>,
      <<<<"t", "r", "u", "e", "e">>, VStr(<<"t", "r", "u", "e", "e">>)>>,
      <<<<"4", "2">>, VInt(42)>>,
      <<<<"-", "1", "2", "3">>, VInt(-123)>>,
      <<<<"0">>, VInt(0)>>,
      <<<<"0", "0", "7">>, VInt(7)>>,
      <<<<"-", "0">>, VInt(0)>>,
      <<<<"-", "0", "0", "7">>, VInt(-7)>>,
      <<<< >>, VStr(<< >>)>>,
      <<<<"-">>, VStr(<<"-">>)>>,
      <<<<"1", ".", "2", ".", "3">>, VStr(<<"1", ".", "2", ".", "3">>)>>,
      <<<<"3", ".", "1", "4">>, VFloat(314, 2)>>,
      <<<<"-", "2", ".", "5">>, VFloat(-25, 1)>>,
      <<<<"0", ".", "0">>, VFloat(0, 0)>>,
      <<<<".">>, VStr(<<".">>)>>,
      <<<<".", "5">>, VFloat(5, 1)>>,
      <<<<"5", ".">>, VFloat(5, 0)>>,
      <<<<"+", "5">>, VStr(<<"+", "5">>)>>,
      <<<<"4", " ", "2">>, VStr(<<"4", " ", "2">>)>>,
      <<<<"1", "e", "5">>, VStr(<<"1", "e", "5">>)>>,
      <<<<"1", ".", "5", "e", "3">>, VFloat(1500, 0)>>,
      <<<<"9", "2", "2", "3", "3", "7", "2", "0", "3", "6", "8", "5", "4", "7", "7", "5", "8", "0", "8">>, VStr(<<"9", "2", "2", "3", "3", "7", "2", "0", "3", "6", "8", "5", "4", "7", "7", "5", "8", "0", "8">>)>>,
      <<<<"-", "9", "2", "2", "3", "3", "7", "2", "0", "3", "6", "8", "5", "4", "7", "7", "5", "8", "0", "9">>, VStr(<<"-", "9", "2", "2", "3", "3", "7", "2", "0", "3", "6", "8", "5", "4", "7", "7", "5", "8", "0", "9">>)>>,
      <<<<"h", "e", "l", "l", "o">>, VStr(<<"h", "e", "l", "l", "o">>)>>,
      <<<<"1", "2", "a">>, VStr(<<"1", "2", "a">>)>>,
      <<<<"-", "-", "5">>, VStr(<<"-", "-", "5">>)>>,
      <<<<"1", "-">>, VStr(<<"1", "-">>)>>,
      <<<<"1", ".", "5", ".">>, VStr(<<"1", ".", "5", ".">>)>>,
      <<<<"-", ".", "5">>, VFloat(-5, 1)>>,
      <<<<"2", "1", "4", "7", "4", "8", "3", "6", "4", "7">>, VInt(2147483647)>>
    }

\* C18: coerce_value gives every raw text exactly one value, by the rule in
\* its order: Boolean for true/false in any case, else the Integer of the
\* decimal value for an optional `-` and digits that fit 64 bits, else Float
\* for a text with a `.` that is a float literal, else the String verbatim;
\* and that value is what load_env_vars stores for the variable.
C18_CoerceClassifies ==
    EnvStep =>
        LET s == EnvRaw
            c == coerce_value(s)
        IN  /\ c[1] = CoerceTag(s)
            /\ c[1] = "Boolean" => c[2] = AnyCase(s, <<"t", "r", "u", "e">>)
            /\ c[1] = "Integer" => c[2] = DecimalValue(s)
            /\ c[1] = "String"  => c[2] = s
            /\ \A x \in CoerceCases : x[1] = s => c = x[2]
            /\ \E x \in CoerceCases : x[1] = s \/ s = <<"v">>
            /\ EnvKey = APP \o SEP \o <<"A">> /\ sources[1].separator = SEP
                  => table = Insert(prev, ka, c)

\* the text 007 of a variable was stored as the Integer 7 in place of a table
C18_Witness ==
    /\ EnvStep /\ EnvRaw = <<"0", "0", "7">>
    /\ ka \in DOMAIN prev /\ IsTable(prev[ka])
    /\ table[ka] = VInt(7)

\* the variables load_env_vars matches, by separator and name, each with the
\* path it targets; every other name of the pool is matched by neither
EnvKeyCases ==
    {
      <<SEP, <<"A", "P", "P", "_", "_", "A">>, <<<<"a">>>>>>,
      <<SEP, <<"A", "P", "P", "_", "_", "A", "_", "_", "B">>, <<<<"a">>, <<"b">>>>>>,
      <<SEP, <<"A", "P", "P", "_", "_", "A", "b", "_", "_", "C">>, <<<<"a", "b">>, <<"c">>>>>>,
      <<SEP, <<"A", "P", "P", "_", "_", "A", "_", "_", "_", "_", "B">>, <<<<"a">>, << >>, <<"b">>>>>>,
      <<SEP, <<"A", "P", "P", "_", "_", "A", "_", "_">>, <<<<"a">>, << >>>>>>,
      <<US, <<"A", "P", "P", "_", "_", "A">>, <<<< >>, <<"a">>>>>>,
      <<US, <<"A", "P", "P", "_", "_", "A", "_", "_", "B">>, <<<< >>, <<"a">>, << >>, <<"b">>>>>>,
      <<US, <<"A", "P", "P", "_", "_">>, <<<< >>, << >>>>>>,
      <<US, <<"A", "P", "P", "_", "A">>, <<<<"a">>>>>>,
      <<US, <<"A", "P", "P", "_", "_", "A", "b", "_", "_", "C">>, <<<< >>, <<"a", "b">>, << >>, <<"c">>>>>>,
      <<US, <<"A", "P", "P", "_", "_", "A", "_", "_", "_", "_", "B">>, <<<< >>, <<"a">>, << >>, << >>, << >>, <<"b">>>>>>,
      <<US, <<"A", "P", "P", "_", "_", "A", "_", "_">>, <<<< >>, <<"a">>, << >>, << >>>>>>,
      <<US, <<"A", "P", "P", "_", "A", "_", "B">>, <<<<"a">>, <<"b">>>>>>
    }

\* the segments of a path joined by the separator
RECURSIVE JoinWith(_, _)
JoinWith(segs, sep) ==
    IF Len(segs) = 1 THEN segs[1] ELSE segs[1] \o sep \o JoinWith(Tail(segs), sep)

\* C19: load_env_vars changes the table for a variable exactly when its name
\* is prefix+separator followed by a non-empty remainder; it then stores the
\* coerced text at the path whose segments, joined by the separator, spell
\* the lowercased remainder and contain no separator; names equal to
\* prefix+separator, names with the prefix but no separator after it and
\* all other names leave the table unchanged.
C19_EnvKeyMatching ==
    EnvStep =>
        LET sep     == sources[1].separator
            pre     == sources[1].prefix \o sep
            matched == Len(EnvKey) > Len(pre) /\ SubSeq(EnvKey, 1, Len(pre)) = pre
            hits    == {c \in EnvKeyCases : c[1] = sep /\ c[2] = EnvKey}
        IN  /\ matched <=> hits # {}
            /\ ~matched => table = prev
            /\ \A c \in hits :
                  /\ TGet(VTbl(table), c[3]) = coerce_value(EnvRaw)
                  /\ table = insert_at_path(prev, c[3], coerce_value(EnvRaw))
                  /\ JoinWith(c[3], sep) = to_lowercase(SubSeq(EnvKey, Len(pre) + 1, Len(EnvKey)))
                  /\ \A i \in DOMAIN c[3] : ~Contains(c[3][i], sep)

\* after a variable that matched nothing, APP__Ab__C was stored at ab.c of a
\* tree that is not empty
C19_Witness ==
    /\ EnvStep /\ idx = 2 /\ prev = tree0 /\ tree0 # EmptyTable
    /\ sources[1].separator = SEP
    /\ EnvKey = APP \o SEP \o <<"A", "b">> \o SEP \o <<"C">>
    /\ TGet(VTbl(table), <<<<"a", "b">>, <<"c">>>>) = VStr(<<"v">>)
    /\ table # prev

(***************************************************************************)
(* Path-targeted merge against whole-table merge                           *)
(***************************************************************************)
\* the table {k1: {... {kn: V}}} for the path [k1..kn]
RECURSIVE Nest(_, _)
Nest(path, value) ==
    IF path = << >> THEN value ELSE VTbl(Head(path) :> Nest(Tail(path), value))

PathMerge == op.kind = "merge" /\ op.path # << >>

\* C20: merging V at a non-empty path gives the tree that the root-level
\* merge of {k1: {... {kn: V}}} gives, which is the tree of the key-by-key
\* merge rule; at the path stands the deep merge of the old table and V when
\* both are tables, and V otherwise.
C20_PathMergeIsRootMerge ==
    PathMerge =>
        LET old == TGet(VTbl(prev), op.path)
        IN  /\ table = merge_at_path(prev, << >>, Nest(op.path, op.value))
            /\ table = MergeSpec(prev, Nest(op.path, op.value)[2])
            /\ TGet(VTbl(table), op.path)
                 = IF IsTable(old) /\ IsTable(op.value)
                   THEN VTbl(MergeSpec(old[2], op.value[2]))
                   ELSE op.value

\* a table merged at a two-segment path into a table that keeps a key of its
\* own, so that the result is neither the old table nor the new one
C20_Witness ==
    /\ PathMerge /\ Len(op.path) = 2 /\ IsTable(op.value)
    /\ IsTable(TGet(VTbl(prev), op.path))
    /\ TGet(VTbl(table), op.path) \notin {TGet(VTbl(prev), op.path), op.value}

(***************************************************************************)
(* Order of enumeration of the environment                                 *)
(***************************************************************************)
IsPrefix(p, q) == Len(p) <= Len(q) /\ SubSeq(q, 1, Len(p)) = p

\* equal paths, or one a prefix of the other
Related(p, q) == IsPrefix(p, q) \/ IsPrefix(q, p)

\* the path a variable <<name, text>> targets under a separator, << >> when
\* load_env_vars does not match it
VarPath(sep, v) ==
    LET hits == {c \in EnvKeyCases : c[1] = sep /\ c[2] = v[1]}
    IN  IF hits = {} THEN << >> ELSE (CHOOSE c \in hits : TRUE)[3]

\* the variables the one just loaded is paired with: every name, and one
\* name with the texts of the four variants
PartnerPool ==
    {<<k, <<"v">>>> : k \in EnvKeyPool}
    \cup {<<APP \o SEP \o <<"A">>, r>> : r \in {<<"4", "2">>, <<"3", ".", "1", "4">>, <<"T", "R", "U", "E">>}}

\* C21: when the variable just loaded and another matched variable target
\* paths that differ and are not prefix-related, inserting the two (scalar)
\* values with insert_at_path in either order gives one table, holding both
\* values, and load_env_vars gives that table for either order of
\* enumeration of the two variables.
C21_EnvOrderIndependent ==
    EnvStep =>
        LET sep == sources[1].separator
            pre == sources[1].prefix
            me  == <<EnvKey, EnvRaw>>
            p   == VarPath(sep, me)
            mv  == coerce_value(EnvRaw)
        IN  p # << >> =>
            \A w \in PartnerPool :
                LET q == VarPath(sep, w) IN
                (q # << >> /\ ~Related(p, q)) =>
                    LET wv   == coerce_value(w[2])
                        both == insert_at_path(table, q, wv)
                    IN  /\ IsScalar(mv) /\ IsScalar(wv)
                        /\ both = insert_at_path(insert_at_path(prev, q, wv), p, mv)
                        /\ load_env_vars(prev, pre, sep, <<me, w>>) = both
                        /\ load_env_vars(prev, pre, sep, <<w, me>>) = both
                        /\ TGet(VTbl(both), p) = mv
                        /\ TGet(VTbl(both), q) = wv

\* two variables were loaded one after the other into a tree whose first
\* key held a scalar; their paths share that key and part after it, and
\* each changed the tree
C21_Witness ==
    /\ EnvStep /\ idx = 2 /\ table # prev
    /\ ka \in DOMAIN tree0 /\ IsScalar(tree0[ka])
    /\ \E v \in PartnerPool :
          LET sep == sources[1].separator
              p   == VarPath(sep, <<EnvKey, EnvRaw>>)
              q   == VarPath(sep, v)
          IN  /\ prev = load_env_vars(tree0, sources[1].prefix, sep, <<v>>)
              /\ prev # tree0
              /\ p # << >> /\ q # << >> /\ ~Related(p, q)
              /\ Len(p) >= 2 /\ Len(q) >= 2 /\ p[1] = ka /\ q[1] = ka
              /\ table = load_env_vars(tree0, sources[1].prefix, sep, <<<<EnvKey, EnvRaw>>, v>>)

====
